---- MODULE Spec2Model ----
(***************************************************************************)
(* Course-management views: owner-scoped course CRUD, the module formset   *)
(* editor, the polymorphic content editor, content deletion, the reorder   *)
(* endpoints and the enroll API, modelled over the persistent store.       *)
(***************************************************************************)
EXTENDS Integers, FiniteSets, Sequences, TLC

\* ------------------------------------------------------------------ bounds
MaxCourses == 2
MaxModules == 2
MaxItems == 1
MaxOrder == 1
MaxInflight == 2

Users == {"u1", "u2"}
Titles == {"a", "b"}
\* a blank required field: what the form layer rejects
Blank == ""
FormValues == Titles \cup {Blank}

\* the whitelist of ContentCreateUpdateView.get_model
Types == {"text", "file", "image", "video"}
\* the type names a URL can carry: the whitelist and one name outside it
ModelNames == Types \cup {"audio"}
\* the model resolved for a name outside the whitelist
NoModel == "None"

AllPerms == {"view_course", "add_course", "change_course", "delete_course"}

CourseIds == 1..MaxCourses
ModuleIds == 1..MaxModules
ItemIds == 1..MaxItems
ContentIds == 1..MaxItems
Orders == 0..MaxOrder

VARIABLES
    perms,          \* user -> set of permission codenames
    courses,        \* course id -> [owner, title, students]
    modules,        \* module id -> [course, title, order]
    contents,       \* content id -> [module, ctype, item, order]
    items,          \* <<type, id>> -> [owner, title]
    nextId,         \* the store's auto-increment counters
    courseCreator,  \* history: course id -> the principal whose request created it
    itemCreator,    \* history: <<type, id>> -> the principal whose request created it
    inflight,       \* content deletion requests between their statements
    last            \* the request that completed last, and its response

vars == <<perms, courses, modules, contents, items, nextId, courseCreator,
          itemCreator, inflight, last>>

store == <<courses, modules, contents, items, nextId, courseCreator, itemCreator>>

\* ----------------------------------------------------------------- helpers
Remove(f, S) == [k \in DOMAIN f \ S |-> f[k]]

Put(f, k, v) == [x \in DOMAIN f \cup {k} |-> IF x = k THEN v ELSE f[x]]

\* What a request carried: the id in its URL, the type name and item id of the
\* content editor's URL, the JSON body of a reorder request
NoId == 0
NoArg == [id |-> NoId, name |-> "", item |-> NoId, batch |-> <<>>]
OnId(id) == [NoArg EXCEPT !.id = id]
OnItem(module_id, model_name, id) == [id |-> module_id, name |-> model_name, item |-> id, batch |-> <<>>]
OnBatch(batch) == [NoArg EXCEPT !.batch = batch]

\* The response of a completed request, with what the request was and whether
\* it changed the store. It is the last conjunct of every branch.
RespondSeeing(op, u, arg, r, orphan) ==
    last' = [op |-> op, user |-> u, arg |-> arg, resp |-> r, orphan |-> orphan,
             changed |-> store' # store]

Respond(op, u, arg, r) == RespondSeeing(op, u, arg, r, FALSE)

\* Content rows whose generic foreign key points at no row of the item table
Orphans == {c \in DOMAIN contents :
                <<contents[c].ctype, contents[c].item>> \notin DOMAIN items}

\* on_delete cascade of the foreign keys Module.course and Content.module
ModulesOf(cs) == {m \in DOMAIN modules : modules[m].course \in cs}
ContentsOf(ms) == {c \in DOMAIN contents : contents[c].module \in ms}

RECURSIVE SetMax(_)
SetMax(S) == IF S = {} THEN -1
             ELSE LET x == CHOOSE y \in S : TRUE
                      r == SetMax(S \ {x})
                  IN IF x > r THEN x ELSE r

\* the order a new row gets among its siblings
FreshOrder(siblingOrders) == SetMax(siblingOrders) + 1

\* ------------------------------------------------- ownership-scoped CRUD
\* a queryset that forgets the owner filter
OwnerQuerysetAll(u) == DOMAIN courses

\* OwnerMixin.get_queryset
OwnerQueryset(u) == {c \in DOMAIN courses : courses[c].owner = u}

\* PermissionRequiredMixin stands ahead of the generic view in the bases of
\* OwnerCourseMixin: the permission is tested before any object is looked up
HasPermission(u, p) == p \in perms[u]

\* OwnerEditMixin.form_valid
StampOwner(row, u) == [row EXCEPT !.owner = u]

CourseCreateView(u, title) ==
    /\ UNCHANGED <<perms, modules, contents, items, itemCreator, inflight>>
    /\ IF ~HasPermission(u, "add_course")
       THEN /\ UNCHANGED <<courses, nextId, courseCreator>>
            /\ Respond("course_create", u, NoArg, "forbidden")
       ELSE IF title = Blank
       THEN /\ UNCHANGED <<courses, nextId, courseCreator>>
            /\ Respond("course_create", u, NoArg, "render")
       ELSE /\ nextId.course <= MaxCourses
            /\ courses' = Put(courses, nextId.course,
                    StampOwner([owner |-> u, title |-> title, students |-> {}], u))
            /\ courseCreator' = Put(courseCreator, nextId.course, u)
            /\ nextId' = [nextId EXCEPT !.course = @ + 1]
            /\ Respond("course_create", u, NoArg, "redirect")

CourseUpdateView(u, pk, title) ==
    /\ UNCHANGED <<perms, modules, contents, items, nextId, courseCreator,
                   itemCreator, inflight>>
    /\ IF ~HasPermission(u, "change_course")
       THEN /\ UNCHANGED courses
            /\ Respond("course_update", u, OnId(pk), "forbidden")
       ELSE IF pk \notin OwnerQueryset(u)
       THEN /\ UNCHANGED courses
            /\ Respond("course_update", u, OnId(pk), "notfound")
       ELSE IF title = Blank
       THEN /\ UNCHANGED courses
            /\ Respond("course_update", u, OnId(pk), "render")
       ELSE /\ courses' = [courses EXCEPT
                    ![pk] = StampOwner([@ EXCEPT !.title = title], u)]
            /\ Respond("course_update", u, OnId(pk), "redirect")

CourseDeleteView(u, pk) ==
    /\ UNCHANGED <<perms, items, nextId, courseCreator, itemCreator, inflight>>
    /\ IF ~HasPermission(u, "delete_course")
       THEN /\ UNCHANGED <<courses, modules, contents>>
            /\ Respond("course_delete", u, OnId(pk), "forbidden")
       ELSE IF pk \notin OwnerQueryset(u)
       THEN /\ UNCHANGED <<courses, modules, contents>>
            /\ Respond("course_delete", u, OnId(pk), "notfound")
       ELSE /\ courses' = Remove(courses, {pk})
            /\ modules' = Remove(modules, ModulesOf({pk}))
            /\ contents' = Remove(contents, ContentsOf(ModulesOf({pk})))
            /\ Respond("course_delete", u, OnId(pk), "redirect")

\* --------------------------------------------------------------- read API
\* get_object_or_404(Course, pk=pk) / self.get_object()
CourseExists(pk) == pk \in DOMAIN courses

\* an assignment in place of add()
StudentsReplace(students, u) == {u}

\* course.students.add(req.user)
StudentsAdd(students, u) == students \cup {u}

EnrolledPayload == "enrolled:true"

CourseEnrollView(u, pk) ==
    /\ UNCHANGED <<perms, modules, contents, items, nextId, courseCreator,
                   itemCreator, inflight>>
    /\ IF ~CourseExists(pk)
       THEN /\ UNCHANGED courses
            /\ Respond("enroll_view", u, OnId(pk), "notfound")
       ELSE /\ courses' = [courses EXCEPT
                    ![pk].students = StudentsAdd(@, u)]
            /\ Respond("enroll_view", u, OnId(pk), EnrolledPayload)

CourseViewSetEnroll(u, pk) ==
    /\ UNCHANGED <<perms, modules, contents, items, nextId, courseCreator,
                   itemCreator, inflight>>
    /\ IF ~CourseExists(pk)
       THEN /\ UNCHANGED courses
            /\ Respond("enroll_action", u, OnId(pk), "notfound")
       ELSE /\ courses' = [courses EXCEPT
                    ![pk].students = StudentsAdd(@, u)]
            /\ Respond("enroll_action", u, OnId(pk), EnrolledPayload)

\* ------------------------------------------------------ module set editor
\* get_object_or_404(Course, id=pk, owner=req.user)
OwnedCourse(u, pk) == pk \in DOMAIN courses /\ courses[pk].owner = u

\* One submitted row of the formset: the title field and the DELETE box
RowInputs == [title : FormValues, delete : BOOLEAN]

\* Extra (new) rows of a submission: none or one
ExtraInputs == {<<>>} \cup {<<t>> : t \in FormValues}

\* ModuleFormSet.is_valid: every row is validated, all together
FormsetIsValid(rows, extra) ==
    /\ \A m \in DOMAIN rows : rows[m].title # Blank
    /\ \A i \in DOMAIN extra : extra[i] # Blank

\* ModuleFormSet.save, existing rows: delete the marked ones, update the others
SaveExisting(rows) ==
    [m \in DOMAIN modules \ {x \in DOMAIN rows : rows[x].delete} |->
        IF m \in DOMAIN rows THEN [modules[m] EXCEPT !.title = rows[m].title]
        ELSE modules[m]]

\* ModuleFormSet.save, new rows: one Module of the course per extra row
SaveNew(mods, pk, extra) ==
    IF extra = <<>> THEN mods
    ELSE Put(mods, nextId.module,
             [course |-> pk, title |-> extra[1],
              order |-> FreshOrder({mods[m].order :
                            m \in {x \in DOMAIN mods : mods[x].course = pk}})])

\* formset.save()
FormsetSave(pk, rows, extra) ==
    /\ modules' = SaveNew(SaveExisting(rows), pk, extra)
    /\ contents' = Remove(contents, ContentsOf({m \in DOMAIN rows : rows[m].delete}))
    /\ nextId' = [nextId EXCEPT !.module = IF extra = <<>> THEN @ ELSE @ + 1]

\* a post that saves without asking is_valid
FormsetGateOpen(rows, extra) == TRUE

\* CourseModuleUpdateView.post: save only behind is_valid
FormsetGate(rows, extra) == FormsetIsValid(rows, extra)

CourseModuleUpdateView(u, pk, rows, extra) ==
    /\ UNCHANGED <<perms, courses, items, courseCreator, itemCreator, inflight>>
    /\ IF ~OwnedCourse(u, pk)
       THEN /\ UNCHANGED <<modules, contents, nextId>>
            /\ Respond("module_formset", u, OnId(pk), "notfound")
       ELSE /\ DOMAIN rows = ModulesOf({pk})
            /\ IF FormsetGate(rows, extra)
               THEN /\ extra # <<>> => nextId.module <= MaxModules
                    /\ FormsetSave(pk, rows, extra)
                    /\ Respond("module_formset", u, OnId(pk), "redirect")
               ELSE /\ UNCHANGED <<modules, contents, nextId>>
                    /\ Respond("module_formset", u, OnId(pk), "render")

\* ---------------------------------------------------- content item editor
\* ContentCreateUpdateView.get_model
GetModel(model_name) == IF model_name \in Types THEN model_name ELSE NoModel

\* a lookup by id alone
AnyModule(u, module_id) == module_id \in DOMAIN modules

\* get_object_or_404(Module, id=module_id, course__owner=req.user)
OwnedModule(u, module_id) ==
    /\ module_id \in DOMAIN modules
    /\ courses[modules[module_id].course].owner = u

\* get_object_or_404(self.model, id=id, owner=req.user)
OwnedItem(u, model, id) ==
    /\ <<model, id>> \in DOMAIN items
    /\ items[<<model, id>>].owner = u

\* ContentCreateUpdateView.dispatch: "ok" hands over to get/post.
\* get_object_or_404 on a model of None raises ValueError, which no handler
\* turns into a 404.
ContentDispatch(u, module_id, model_name, id) ==
    IF ~OwnedModule(u, module_id) THEN "notfound"
    ELSE IF id = NoId THEN "ok"
    ELSE IF GetModel(model_name) = NoModel THEN "error"
    ELSE IF ~OwnedItem(u, GetModel(model_name), id) THEN "notfound"
    ELSE "ok"

RECURSIVE Sum(_, _)
Sum(f, S) == IF S = {} THEN 0
             ELSE LET x == CHOOSE y \in S : TRUE IN f[x] + Sum(f, S \ {x})

ItemsCreated == Sum(nextId.item, Types) - Cardinality(Types)

ContentCreateUpdateGet(u, module_id, model_name, id) ==
    /\ UNCHANGED <<perms, inflight>>
    /\ UNCHANGED store
    /\ LET d == ContentDispatch(u, module_id, model_name, id)
           arg == OnItem(module_id, model_name, id)
       IN
       IF d # "ok" THEN Respond("content_get", u, arg, d)
       \* no form can be built for a model of None: an unhandled exception
       ELSE IF GetModel(model_name) = NoModel THEN Respond("content_get", u, arg, "error")
       ELSE Respond("content_get", u, arg, "render")

\* Content.objects.create(module=self.module, item=obj)
CreateContent(module_id, model, item_id) ==
    Put(contents, nextId.content,
        [module |-> module_id, ctype |-> model, item |-> item_id,
         order |-> FreshOrder({contents[c].order : c \in ContentsOf({module_id})})])

\* a post that creates the Content row on every save
AlwaysCreation(id) == TRUE

\* "if not id:" of ContentCreateUpdateView.post
IsCreation(id) == id = NoId

ContentCreateUpdatePost(u, module_id, model_name, id, title) ==
    /\ UNCHANGED <<perms, courses, modules, courseCreator, inflight>>
    /\ LET d == ContentDispatch(u, module_id, model_name, id)
           model == GetModel(model_name)
           arg == OnItem(module_id, model_name, id)
           new == IF id = NoId THEN nextId.item[model] ELSE id
       IN
       IF d # "ok"
       THEN /\ UNCHANGED <<contents, items, nextId, itemCreator>>
            /\ Respond("content_post", u, arg, d)
       ELSE IF model = NoModel
       THEN /\ UNCHANGED <<contents, items, nextId, itemCreator>>
            /\ Respond("content_post", u, arg, "error")
       ELSE IF title = Blank
       THEN /\ UNCHANGED <<contents, items, nextId, itemCreator>>
            /\ Respond("content_post", u, arg, "render")
       ELSE /\ id = NoId => ItemsCreated < MaxItems
            /\ items' = Put(items, <<model, new>>, [owner |-> u, title |-> title])
            /\ itemCreator' = IF id = NoId THEN Put(itemCreator, <<model, new>>, u)
                              ELSE itemCreator
            /\ nextId' = IF id = NoId
                         THEN [nextId EXCEPT !.item[model] = @ + 1, !.content = @ + 1]
                         ELSE nextId
            /\ contents' = IF IsCreation(id) THEN CreateContent(module_id, model, new)
                           ELSE contents
            /\ Respond("content_post", u, arg, "redirect")

\* --------------------------------------------------------- content list
ModuleContentListView(u, module_id) ==
    /\ UNCHANGED <<perms, inflight>>
    /\ UNCHANGED store
    /\ IF ~OwnedModule(u, module_id)
       THEN Respond("content_list", u, OnId(module_id), "notfound")
       ELSE RespondSeeing("content_list", u, OnId(module_id), "render",
                          ContentsOf({module_id}) \cap Orphans # {})

\* ------------------------------------------------------ content deletion
\* ContentDeleteView.post runs its statements against the store with no
\* transaction around them; a request in flight is between two of them.
Idle == [pc |-> "idle"]
Slots == 1..MaxInflight

\* a lookup by id alone
AnyContent(u, id) == id \in DOMAIN contents

\* get_object_or_404(Content, id=id, module__course__owner=req.user)
OwnedContent(u, id) ==
    /\ id \in DOMAIN contents
    /\ OwnedModule(u, contents[id].module)

\* line 134: the Content row is fetched
ContentDeleteFetch(p, u, id) ==
    /\ inflight[p] = Idle
    /\ UNCHANGED perms
    /\ UNCHANGED store
    /\ IF ~OwnedContent(u, id)
       THEN /\ UNCHANGED inflight
            /\ Respond("content_delete", u, OnId(id), "notfound")
       ELSE /\ inflight' = [inflight EXCEPT ![p] =
                    [pc |-> "load", user |-> u, id |-> id,
                     module |-> contents[id].module,
                     key |-> <<contents[id].ctype, contents[id].item>>]]
            /\ UNCHANGED last

\* lines 135-136: content.module and content.item are read; a generic
\* foreign key whose row is gone reads as None, and None has no delete()
ContentDeleteLoad(p) ==
    /\ inflight[p].pc = "load"
    /\ UNCHANGED perms
    /\ UNCHANGED store
    /\ IF inflight[p].module \notin DOMAIN modules
       THEN /\ inflight' = [inflight EXCEPT ![p] = Idle]
            /\ Respond("content_delete", inflight[p].user, OnId(inflight[p].id), "error")
       ELSE IF inflight[p].key \notin DOMAIN items
       THEN /\ inflight' = [inflight EXCEPT ![p] = Idle]
            /\ RespondSeeing("content_delete", inflight[p].user, OnId(inflight[p].id),
                             "error", inflight[p].id \in Orphans)
       ELSE /\ inflight' = [inflight EXCEPT ![p].pc = "item"]
            /\ UNCHANGED last

\* line 136: content.item.delete()
ContentDeleteItem(p) ==
    /\ inflight[p].pc = "item"
    /\ items' = Remove(items, {inflight[p].key})
    /\ inflight' = [inflight EXCEPT ![p].pc = "row"]
    /\ UNCHANGED <<perms, courses, modules, contents, nextId, courseCreator,
                   itemCreator, last>>

\* lines 137-139: content.delete() and the redirect
ContentDeleteRow(p) ==
    /\ inflight[p].pc = "row"
    /\ contents' = Remove(contents, {inflight[p].id})
    /\ inflight' = [inflight EXCEPT ![p] = Idle]
    /\ UNCHANGED <<perms, courses, modules, items, nextId, courseCreator,
                   itemCreator>>
    /\ Respond("content_delete", inflight[p].user, OnId(inflight[p].id), "redirect")

\* ------------------------------------------------------ ordering endpoint
\* The request body: a JSON object, so each id occurs once
Batches(ids) == UNION {[S -> Orders] : S \in SUBSET ids}

\* an update filtered by id alone
UpdateModuleOrdersUnscoped(mods, batch, u) ==
    [m \in DOMAIN mods |->
        IF m \in DOMAIN batch THEN [mods[m] EXCEPT !.order = batch[m]] ELSE mods[m]]

\* Module.objects.filter(id=id, course__owner=req.user).update(order=order),
\* once per pair of the batch
RECURSIVE UpdateModuleOrders(_, _, _)
UpdateModuleOrders(mods, batch, u) ==
    IF DOMAIN batch = {} THEN mods
    ELSE LET id == CHOOSE x \in DOMAIN batch : TRUE
             hit == id \in DOMAIN mods /\ courses[mods[id].course].owner = u
             upd == IF hit THEN [mods EXCEPT ![id].order = batch[id]] ELSE mods
         IN UpdateModuleOrders(upd, Remove(batch, {id}), u)

\* Content.objects.filter(id=id, module__course__owner=req.user).update(order=order),
\* once per pair of the batch
RECURSIVE UpdateContentOrders(_, _, _)
UpdateContentOrders(cons, batch, u) ==
    IF DOMAIN batch = {} THEN cons
    ELSE LET id == CHOOSE x \in DOMAIN batch : TRUE
             hit == id \in DOMAIN cons /\ OwnedModule(u, cons[id].module)
             upd == IF hit THEN [cons EXCEPT ![id].order = batch[id]] ELSE cons
         IN UpdateContentOrders(upd, Remove(batch, {id}), u)

\* the argument of render_json_response in each view
ModuleOrderPayload == "saved:OK"
ContentOrderPayload == "saved:Ok"

ModuleOrderView(u, batch) ==
    /\ modules' = UpdateModuleOrders(modules, batch, u)
    /\ UNCHANGED <<perms, courses, contents, items, nextId, courseCreator,
                   itemCreator, inflight>>
    /\ Respond("module_order", u, OnBatch(batch), ModuleOrderPayload)

ContentOrderView(u, batch) ==
    /\ contents' = UpdateContentOrders(contents, batch, u)
    /\ UNCHANGED <<perms, courses, modules, items, nextId, courseCreator,
                   itemCreator, inflight>>
    /\ Respond("content_order", u, OnBatch(batch), ContentOrderPayload)

\* ------------------------------------------------------------ specification
Init ==
    /\ perms \in [Users -> {AllPerms, {}}]
    /\ courses = <<>>
    /\ modules = <<>>
    /\ contents = <<>>
    /\ items = <<>>
    /\ nextId = [course |-> 1, module |-> 1, content |-> 1,
                 item |-> [t \in Types |-> 1]]
    /\ courseCreator = <<>>
    /\ itemCreator = <<>>
    /\ inflight = [p \in Slots |-> Idle]
    /\ last = [op |-> "none", user |-> "none", arg |-> NoArg, resp |-> "none",
               orphan |-> FALSE, changed |-> FALSE]

\* The rows of a submission: one per module the editor page showed
RowsFor(pk) == [ModulesOf({pk}) -> RowInputs]

Next ==
    \/ \E u \in Users, t \in FormValues : CourseCreateView(u, t)
    \/ \E u \in Users, pk \in CourseIds, t \in FormValues : CourseUpdateView(u, pk, t)
    \/ \E u \in Users, pk \in CourseIds : CourseDeleteView(u, pk)
    \/ \E u \in Users, pk \in CourseIds : CourseEnrollView(u, pk)
    \/ \E u \in Users, pk \in CourseIds : CourseViewSetEnroll(u, pk)
    \/ \E u \in Users, pk \in CourseIds : \E rows \in RowsFor(pk), extra \in ExtraInputs :
            CourseModuleUpdateView(u, pk, rows, extra)
    \/ \E u \in Users, m \in ModuleIds, n \in ModelNames, id \in {NoId} \cup ItemIds :
            ContentCreateUpdateGet(u, m, n, id)
    \/ \E u \in Users, m \in ModuleIds, n \in ModelNames, id \in {NoId} \cup ItemIds,
          t \in FormValues : ContentCreateUpdatePost(u, m, n, id, t)
    \/ \E u \in Users, m \in ModuleIds : ModuleContentListView(u, m)
    \/ \E p \in Slots, u \in Users, id \in ContentIds : ContentDeleteFetch(p, u, id)
    \/ \E p \in Slots : ContentDeleteLoad(p)
    \/ \E p \in Slots : ContentDeleteItem(p)
    \/ \E p \in Slots : ContentDeleteRow(p)
    \/ \E u \in Users, b \in Batches(ModuleIds) : ModuleOrderView(u, b)
    \/ \E u \in Users, b \in Batches(ContentIds) : ContentOrderView(u, b)

Spec == Init /\ [][Next]_vars

\* A store two instructors have built up through the course create view and
\* the module set editor: a course each, with one module each
InitPopulated ==
    /\ perms = [u \in Users |-> AllPerms]
    /\ courses = (1 :> [owner |-> "u1", title |-> "a", students |-> {}])
              @@ (2 :> [owner |-> "u2", title |-> "a", students |-> {}])
    /\ modules = (1 :> [course |-> 1, title |-> "a", order |-> 0])
              @@ (2 :> [course |-> 2, title |-> "a", order |-> 0])
    /\ contents = <<>>
    /\ items = <<>>
    /\ nextId = [course |-> 3, module |-> 3, content |-> 1,
                 item |-> [t \in Types |-> 1]]
    /\ courseCreator = (1 :> "u1") @@ (2 :> "u2")
    /\ itemCreator = <<>>
    /\ inflight = [p \in Slots |-> Idle]
    /\ last = [op |-> "none", user |-> "none", arg |-> NoArg, resp |-> "none",
               orphan |-> FALSE, changed |-> FALSE]

\* Course CRUD and enrolment
NextCourse ==
    \/ \E u \in Users, t \in FormValues : CourseCreateView(u, t)
    \/ \E u \in Users, pk \in CourseIds, t \in FormValues : CourseUpdateView(u, pk, t)
    \/ \E u \in Users, pk \in CourseIds : CourseDeleteView(u, pk)
    \/ \E u \in Users, pk \in CourseIds : CourseEnrollView(u, pk)
    \/ \E u \in Users, pk \in CourseIds : CourseViewSetEnroll(u, pk)

SpecCourse == Init /\ [][NextCourse]_vars

\* The same two courses, before any module was added
InitCourses ==
    /\ perms = [u \in Users |-> AllPerms]
    /\ courses = (1 :> [owner |-> "u1", title |-> "a", students |-> {}])
              @@ (2 :> [owner |-> "u2", title |-> "a", students |-> {}])
    /\ modules = <<>>
    /\ contents = <<>>
    /\ items = <<>>
    /\ nextId = [course |-> 3, module |-> 1, content |-> 1,
                 item |-> [t \in Types |-> 1]]
    /\ courseCreator = (1 :> "u1") @@ (2 :> "u2")
    /\ itemCreator = <<>>
    /\ inflight = [p \in Slots |-> Idle]
    /\ last = [op |-> "none", user |-> "none", arg |-> NoArg, resp |-> "none",
               orphan |-> FALSE, changed |-> FALSE]

\* The module set editor: every row retitled or blanked, kept or marked for
\* deletion, with no new row, a valid one or a blank one
EditedRowsFor(pk) == [ModulesOf({pk}) -> [title : {"b", Blank}, delete : BOOLEAN]]

NewRows == {<<>>, <<"a">>, <<Blank>>}

NextModule ==
    \/ \E u \in Users, pk \in CourseIds : \E rows \in EditedRowsFor(pk), extra \in NewRows :
            CourseModuleUpdateView(u, pk, rows, extra)
    \/ \E u \in Users, m \in ModuleIds :
            /\ ItemsCreated = 0
            /\ ContentCreateUpdatePost(u, m, "text", NoId, "a")

SpecModule == InitCourses /\ [][NextModule]_vars

\* The content item editor
NextEditor ==
    \/ \E u \in Users, m \in ModuleIds, n \in ModelNames, id \in {NoId} \cup ItemIds :
            ContentCreateUpdateGet(u, m, n, id)
    \/ \E u \in Users, m \in ModuleIds, n \in ModelNames, id \in {NoId} \cup ItemIds,
          t \in FormValues : ContentCreateUpdatePost(u, m, n, id, t)

SpecEditor == InitPopulated /\ [][NextEditor]_vars

\* Content deletion, interleaved with the content list and course deletion
NextDelete ==
    \/ \E u \in Users, m \in ModuleIds : ContentCreateUpdatePost(u, m, "text", NoId, "a")
    \/ \E u \in Users, pk \in CourseIds : CourseDeleteView(u, pk)
    \/ \E u \in Users, m \in ModuleIds : ModuleContentListView(u, m)
    \/ \E p \in Slots, u \in Users, id \in ContentIds : ContentDeleteFetch(p, u, id)
    \/ \E p \in Slots : ContentDeleteLoad(p)
    \/ \E p \in Slots : ContentDeleteItem(p)
    \/ \E p \in Slots : ContentDeleteRow(p)

SpecDelete == InitPopulated /\ [][NextDelete]_vars

\* The two reorder endpoints
NextOrder ==
    \/ \E u \in Users, m \in ModuleIds : ContentCreateUpdatePost(u, m, "text", NoId, "a")
    \/ \E u \in Users, b \in Batches(ModuleIds) : ModuleOrderView(u, b)
    \/ \E u \in Users, b \in Batches(ContentIds) : ContentOrderView(u, b)

SpecOrder == InitPopulated /\ [][NextOrder]_vars

\* Every view that writes, side by side
PlainRowsFor(pk) == [ModulesOf({pk}) -> [title : {"a"}, delete : BOOLEAN]]

SingleBatches(ids) == {b \in Batches(ids) : Cardinality(DOMAIN b) = 1 /\ \A i \in DOMAIN b : b[i] = MaxOrder}

NextOwnership ==
    \/ \E u \in Users : CourseCreateView(u, "a")
    \/ \E u \in Users, pk \in CourseIds : CourseUpdateView(u, pk, "b")
    \/ \E u \in Users, pk \in CourseIds : CourseDeleteView(u, pk)
    \/ \E u \in Users, pk \in CourseIds : \E rows \in PlainRowsFor(pk), extra \in {<<>>, <<"a">>} :
            CourseModuleUpdateView(u, pk, rows, extra)
    \/ \E u \in Users, m \in ModuleIds, id \in {NoId} \cup ItemIds :
            /\ id = NoId => ItemsCreated = 0
            /\ ContentCreateUpdatePost(u, m, "text", id, IF id = NoId THEN "a" ELSE "b")
    \/ \E u \in Users, id \in ContentIds : ContentDeleteFetch(1, u, id)
    \/ ContentDeleteLoad(1)
    \/ ContentDeleteItem(1)
    \/ ContentDeleteRow(1)
    \/ \E u \in Users, b \in SingleBatches(ModuleIds) : ModuleOrderView(u, b)
    \/ \E u \in Users, b \in SingleBatches(ContentIds) : ContentOrderView(u, b)

\* One instructor has a course with a module; the courses and modules made
\* after them are deleted again, and there is room for one more of each
InitOwnership ==
    /\ perms = [u \in Users |-> AllPerms]
    /\ courses = (1 :> [owner |-> "u1", title |-> "a", students |-> {}])
    /\ modules = (1 :> [course |-> 1, title |-> "a", order |-> 0])
    /\ contents = <<>>
    /\ items = <<>>
    /\ nextId = [course |-> MaxCourses, module |-> MaxModules, content |-> 1,
                 item |-> [t \in Types |-> 1]]
    /\ courseCreator = [c \in 1..(MaxCourses - 1) |-> "u1"]
    /\ itemCreator = <<>>
    /\ inflight = [p \in Slots |-> Idle]
    /\ last = [op |-> "none", user |-> "none", arg |-> NoArg, resp |-> "none",
               orphan |-> FALSE, changed |-> FALSE]

SpecOwnership == InitOwnership /\ [][NextOwnership]_vars

\* ================================================================== claims
CourseOwner(pk) == courses[pk].owner
ModuleOwner(m) == courses[modules[m].course].owner
ContentOwner(c) == courses[modules[contents[c].module].course].owner

RequiredPermission(op) ==
    IF op = "course_update" THEN "change_course" ELSE "delete_course"

\* the step completes a course update or delete addressed to an existing
\* course of another principal
NonOwnerCourseRequest ==
    /\ last'.op \in {"course_update", "course_delete"}
    /\ last'.arg.id \in DOMAIN courses
    /\ CourseOwner(last'.arg.id) # last'.user

\* C1, as stated: an update or delete of a course by an authenticated
\* principal who is not its owner answers not-found, never forbidden, with or
\* without the permission, and leaves the course as it was.
C1_NonOwnerAlwaysNotFound ==
    [][NonOwnerCourseRequest =>
         /\ last'.resp = "notfound"
         /\ courses' = courses]_vars

\* C1, amended: such a request answers not-found when the principal holds the
\* view's permission and forbidden when not; the course is left as it was in
\* both cases.
C1_NonOwnerNotFoundWithPermission ==
    [][NonOwnerCourseRequest =>
         /\ last'.resp = IF HasPermission(last'.user, RequiredPermission(last'.op))
                         THEN "notfound" ELSE "forbidden"
         /\ courses' = courses
         /\ modules' = modules
         /\ contents' = contents]_vars

C1_Witness ==
    /\ last.op \in {"course_update", "course_delete"}
    /\ last.resp = "notfound"
    /\ last.arg.id \in DOMAIN courses
    /\ CourseOwner(last.arg.id) # last.user
    /\ HasPermission(last.user, RequiredPermission(last.op))

\* C2: an enroll of U in an existing course, through either entry point,
\* answers {enrolled: true} and leaves U in the student set; when U was in
\* it already the set keeps its members and size; nobody else's membership
\* and no other course changes.
C2_EnrollIdempotent ==
    [][(last'.op \in {"enroll_view", "enroll_action"} /\ last'.arg.id \in DOMAIN courses) =>
         LET c == last'.arg.id
             u == last'.user
         IN /\ last'.resp = EnrolledPayload
            /\ DOMAIN courses' = DOMAIN courses
            /\ u \in courses'[c].students
            /\ courses'[c].students \ {u} = courses[c].students \ {u}
            /\ u \in courses[c].students =>
                  /\ courses' = courses
                  /\ Cardinality(courses'[c].students) = Cardinality(courses[c].students)
            /\ \A d \in DOMAIN courses \ {c} : courses'[d] = courses[d]]_vars

\* a repeated enroll, after the other principal enrolled too
C2_Witness ==
    /\ last.op = "enroll_action"
    /\ last.resp = EnrolledPayload
    /\ ~last.changed
    /\ last.arg.id \in DOMAIN courses
    /\ courses[last.arg.id].students = Users

\* C3, as stated: every POST to the content editor without an id adds exactly
\* one Content row, and a POST with an id adds none.
C3_PostWithoutIdAlwaysAddsOne ==
    [][last'.op = "content_post" =>
         Cardinality(DOMAIN contents') =
            Cardinality(DOMAIN contents) + (IF last'.arg.item = NoId THEN 1 ELSE 0)]_vars

\* C3, amended: a POST without an id that validates (it answers with the
\* redirect) adds exactly one Content row, linking the resolved module to the
\* item it has just saved; every other POST, with or without an id, leaves
\* the Content rows as they were.
C3_ValidCreationAddsOne ==
    [][last'.op = "content_post" =>
         IF last'.arg.item = NoId /\ last'.resp = "redirect"
         THEN \E c \in DOMAIN contents' \ DOMAIN contents :
                /\ DOMAIN contents' = DOMAIN contents \cup {c}
                /\ \A d \in DOMAIN contents : contents'[d] = contents[d]
                /\ contents'[c].module = last'.arg.id
                /\ contents'[c].ctype = last'.arg.name
                /\ <<contents'[c].ctype, contents'[c].item>> \in DOMAIN items' \ DOMAIN items
         ELSE contents' = contents]_vars

C3_Witness ==
    /\ last.op = "content_post"
    /\ last.arg.item = NoId
    /\ last.resp = "redirect"
    /\ last.changed
    /\ DOMAIN contents # {}

\* C4: a reorder request sets the order of every id of the batch whose course
\* the requester owns, leaves every other row as it was, raises nothing for
\* foreign ids and answers with the endpoint's one payload whatever matched.
C4_ReorderScoped ==
    [][/\ last'.op = "module_order" =>
            /\ last'.resp = ModuleOrderPayload
            /\ DOMAIN modules' = DOMAIN modules
            /\ \A id \in DOMAIN modules :
                  modules'[id] =
                     IF id \in DOMAIN last'.arg.batch /\ ModuleOwner(id) = last'.user
                     THEN [modules[id] EXCEPT !.order = last'.arg.batch[id]]
                     ELSE modules[id]
            /\ contents' = contents
       /\ last'.op = "content_order" =>
            /\ last'.resp = ContentOrderPayload
            /\ DOMAIN contents' = DOMAIN contents
            /\ \A id \in DOMAIN contents :
                  contents'[id] =
                     IF id \in DOMAIN last'.arg.batch /\ ContentOwner(id) = last'.user
                     THEN [contents[id] EXCEPT !.order = last'.arg.batch[id]]
                     ELSE contents[id]
            /\ modules' = modules]_vars

\* a batch with an owned and a foreign id has been applied
C4_Witness ==
    /\ last.op = "module_order"
    /\ last.changed
    /\ \E i, j \in DOMAIN last.arg.batch \cap DOMAIN modules :
          /\ ModuleOwner(i) = last.user
          /\ ModuleOwner(j) # last.user
          /\ modules[i].order = last.arg.batch[i]
          /\ modules[j].order # last.arg.batch[j]

\* C5: both reorder endpoints answer every completed request with the same
\* payload, {saved: "OK"}.
C5_SamePayload ==
    last.op \in {"module_order", "content_order"} => last.resp = "saved:OK"

\* C6: a whitelisted type name reads and writes the item table of that name;
\* any other type name, on GET or POST, with or without an id, answers
\* not-found and changes nothing.
C6_TypeResolution ==
    last.op \in {"content_get", "content_post"} =>
        IF last.arg.name \in Types
        THEN (last.op = "content_post" /\ last.resp = "redirect") =>
                <<last.arg.name,
                  IF last.arg.item = NoId THEN nextId.item[last.arg.name] - 1
                  ELSE last.arg.item>> \in DOMAIN items
        ELSE last.resp = "notfound" /\ ~last.changed

\* C7: when the owner's deletion request completes, the Content row and its
\* item are both gone, and the item went first: it is already gone when the
\* row is deleted, and the row is still there when the item is deleted. A
\* deletion request for a Content of another principal's course answers
\* not-found and removes nothing.
C7_DeleteRemovesBoth ==
    [][/\ \A p \in Slots :
            /\ ContentDeleteRow(p) =>
                  /\ inflight[p].id \notin DOMAIN contents'
                  /\ inflight[p].key \notin DOMAIN items'
                  /\ inflight[p].key \notin DOMAIN items
                  /\ last'.resp = "redirect"
            /\ ContentDeleteItem(p) => contents' = contents
       /\ \A p \in Slots, u \in Users, id \in DOMAIN contents :
            (ContentOwner(id) # u /\ ContentDeleteFetch(p, u, id)) =>
                  /\ last'.resp = "notfound"
                  /\ inflight' = inflight
                  /\ items' = items
                  /\ contents' = contents]_vars

C7_Witness ==
    /\ last.op = "content_delete"
    /\ last.resp = "redirect"
    /\ last.changed
    /\ last.arg.id \notin DOMAIN contents
    /\ DOMAIN items = {}
    /\ DOMAIN itemCreator # {}

\* C8: on a POST of the module set editor by the course owner, any invalid
\* row leaves every Module as it was and re-renders the form; with every row
\* valid, each row is persisted, the marked rows are removed, the new row is
\* added, and the answer is the redirect.
C8_AllOrNothing ==
    [][last'.op = "module_formset" =>
         LET u == last'.user
             pk == last'.arg.id
         IN \A rows \in EditedRowsFor(pk), extra \in NewRows :
              (OwnedCourse(u, pk) /\ CourseModuleUpdateView(u, pk, rows, extra)) =>
                 IF \/ \E m \in DOMAIN rows : rows[m].title = Blank
                    \/ \E i \in DOMAIN extra : extra[i] = Blank
                 THEN /\ modules' = modules
                      /\ contents' = contents
                      /\ last'.resp = "render"
                 ELSE /\ last'.resp = "redirect"
                      /\ \A m \in DOMAIN rows :
                            IF rows[m].delete THEN m \notin DOMAIN modules'
                            ELSE /\ m \in DOMAIN modules'
                                 /\ modules'[m].title = rows[m].title
                      /\ \A m \in DOMAIN modules \ DOMAIN rows : modules'[m] = modules[m]
                      /\ IF extra = <<>> THEN DOMAIN modules' \subseteq DOMAIN modules
                         ELSE \E n \in DOMAIN modules' \ DOMAIN modules :
                                 /\ modules'[n].course = pk
                                 /\ modules'[n].title = extra[1]]_vars

\* a submission with an invalid row was rejected while the course had modules
C8_Witness ==
    /\ last.op = "module_formset"
    /\ last.resp = "render"
    /\ ~last.changed
    /\ ModulesOf({last.arg.id}) # {}

\* C9: no request observes or acts on a Content row whose item is deleted.
C9_DeletionAtomic == ~last.orphan

\* the principal whose request takes the step
StepUser(u) ==
    \/ \E p \in Slots :
          /\ inflight'[p] # inflight[p]
          /\ \/ inflight[p] # Idle /\ inflight[p].user = u
             \/ inflight'[p] # Idle /\ inflight'[p].user = u
    \/ inflight' = inflight /\ last'.user = u

Changed(f, g) ==
    {k \in DOMAIN f \cup DOMAIN g : k \notin DOMAIN f \/ k \notin DOMAIN g \/ f[k] # g[k]}

\* every row the step creates, changes or deletes belongs to u, before the
\* step where it existed and after it where it exists
MutatesOnlyOwned(u) ==
    /\ \A c \in Changed(courses, courses') :
          /\ c \in DOMAIN courses => courses[c].owner = u
          /\ c \in DOMAIN courses' => courses'[c].owner = u
    /\ \A m \in Changed(modules, modules') :
          /\ m \in DOMAIN modules => ModuleOwner(m) = u
          /\ m \in DOMAIN modules' => courses'[modules'[m].course].owner = u
    /\ \A c \in Changed(contents, contents') :
          /\ c \in DOMAIN contents => ContentOwner(c) = u
          /\ c \in DOMAIN contents' =>
                courses'[modules'[contents'[c].module].course].owner = u
    /\ \A k \in Changed(items, items') :
          /\ k \in DOMAIN items => items[k].owner = u
          /\ k \in DOMAIN items' => items'[k].owner = u

OwnerIsCreator ==
    /\ \A c \in DOMAIN courses : courses[c].owner = courseCreator[c]
    /\ \A k \in DOMAIN items : items[k].owner = itemCreator[k]

\* C10: a course's owner and an item's owner are always the principals who
\* created them, and every step of the course CRUD, module editor, content
\* editor, content delete and reorder views changes only rows owned by the
\* principal whose request it is.
C10_Ownership ==
    /\ []OwnerIsCreator
    /\ [][\A u \in Users : StepUser(u) => MutatesOnlyOwned(u)]_vars

\* both principals own a course, and one has edited an item in its module
C10_Witness ==
    /\ last.op = "content_post"
    /\ last.arg.item # NoId
    /\ last.resp = "redirect"
    /\ last.changed
    /\ \E c, d \in DOMAIN courses : courses[c].owner # courses[d].owner

====
